---- MODULE Spec2Model ----
(***************************************************************************)
(* Dots and Boxes on the fixed 3x3 box grid: the tile/board graph, the     *)
(* chain and loop discovery of Board, the Game layer (turn, captures) and  *)
(* the alpha-beta Agent.                                                   *)
(***************************************************************************)
EXTENDS Integers, Sequences, FiniteSets, TLC

VARIABLES tiles, player, captured, plays, depth, out

vars == <<tiles, player, captured, plays, depth, out>>

(***************************************************************************)
(* Bounds of the model.                                                    *)
(***************************************************************************)
\* plays (or marks) explored after the initial position
MaxPlays == 4
\* ab_search is explored at positions with at most this many undrawn edges
MaxSearchOpen == 4

(***************************************************************************)
(* tile.rs : Position, TileIndex, TileConfig, Tile                         *)
(***************************************************************************)
Position == {"Top", "Bottom", "Left", "Right"}

POSITIONS == <<"Top", "Bottom", "Right", "Left">>

TileIndex == (0..2) \X (0..2)

TOP_LEFT == <<0, 0>>
TOP_CENTER == <<0, 1>>
TOP_RIGHT == <<0, 2>>
MIDDLE_LEFT == <<1, 0>>
CENTER == <<1, 1>>
MIDDLE_RIGHT == <<1, 2>>
BOTTOM_LEFT == <<2, 0>>
BOTTOM_CENTER == <<2, 1>>
BOTTOM_RIGHT == <<2, 2>>

invert(pos) ==
    CASE pos = "Top" -> "Bottom"
      [] pos = "Bottom" -> "Top"
      [] pos = "Left" -> "Right"
      [] pos = "Right" -> "Left"

\* TileConfig: one flag per side, TRUE once the side has been marked (drawn)
TileConfig == [top : BOOLEAN, bottom : BOOLEAN, left : BOOLEAN, right : BOOLEAN]

TileConfigNew == [top |-> FALSE, bottom |-> FALSE, left |-> FALSE, right |-> FALSE]

B2I(b) == IF b THEN 1 ELSE 0

\* `x as i32` of each flag, summed: the number of flags that are set
open_count(c) == B2I(c.top) + B2I(c.bottom) + B2I(c.left) + B2I(c.right)

ConfigIsOpen(c, pos) ==
    CASE pos = "Top" -> ~c.top
      [] pos = "Bottom" -> ~c.bottom
      [] pos = "Left" -> ~c.left
      [] pos = "Right" -> ~c.right

is_end(c) == open_count(c) = 1

\* a test that also takes one and none for two: a tile on which three or
\* four ways lead on passes for a path
is_path_up_to(c) == open_count(c) <= 2
\* a test that also takes three and four for two
is_path_at_least(c) == open_count(c) >= 2
is_path(c) == open_count(c) = 2

can_be_chained(c) == is_end(c) \/ is_path(c)

has_neighbor(index, pos) ==
    CASE pos = "Top" -> index[1] # 0
      [] pos = "Bottom" -> index[1] # 2
      [] pos = "Left" -> index[2] # 0
      [] pos = "Right" -> index[2] # 2

\* Tile::mark sets the flag of the side itself
\* a mark of the top side that sets the bottom flag as well
Tile_mark_top_sets_bottom(c, pos) ==
    CASE pos = "Top" -> [c EXCEPT !.top = TRUE, !.bottom = TRUE]
      [] pos = "Bottom" -> [c EXCEPT !.bottom = TRUE]
      [] pos = "Left" -> [c EXCEPT !.left = TRUE]
      [] pos = "Right" -> [c EXCEPT !.right = TRUE]
Tile_mark_same_flag(c, pos) ==
    CASE pos = "Top" -> [c EXCEPT !.top = TRUE]
      [] pos = "Bottom" -> [c EXCEPT !.top = TRUE]
      [] pos = "Left" -> [c EXCEPT !.left = TRUE]
      [] pos = "Right" -> [c EXCEPT !.right = TRUE]
Tile_mark(c, pos) ==
    CASE pos = "Top" -> [c EXCEPT !.top = TRUE]
      [] pos = "Bottom" -> [c EXCEPT !.bottom = TRUE]
      [] pos = "Left" -> [c EXCEPT !.left = TRUE]
      [] pos = "Right" -> [c EXCEPT !.right = TRUE]

\* Option values are sequences: <<>> is None, <<v>> is Some(v)
None == <<>>
Some(v) == <<v>>
IsSome(o) == Len(o) = 1
Unwrap(o) == o[1]

at(index, pos) ==
    CASE pos = "Top" -> IF index[1] = 0 THEN None ELSE Some(<<index[1] - 1, index[2]>>)
      [] pos = "Bottom" -> IF index[1] = 2 THEN None ELSE Some(<<index[1] + 1, index[2]>>)
      [] pos = "Left" -> IF index[2] = 0 THEN None ELSE Some(<<index[1], index[2] - 1>>)
      [] pos = "Right" -> IF index[2] = 2 THEN None ELSE Some(<<index[1], index[2] + 1>>)

abs_diff(a, b) == IF a >= b THEN a - b ELSE b - a

adjacent_to(index, other) ==
    abs_diff(index[1], other[1]) + abs_diff(index[2], other[2]) = 1

\* the first position of POSITIONS by which `other` is reached from `index`
relative_position(index, other) ==
    LET hits == SelectSeq(POSITIONS, LAMBDA p : at(index, p) = Some(other))
    IN  IF hits = <<>> THEN None ELSE Some(hits[1])

\* the drawn sides listed for the undrawn ones
openings_drawn(c) == SelectSeq(POSITIONS, LAMBDA p : ~ConfigIsOpen(c, p))
openings(c) == SelectSeq(POSITIONS, LAMBDA p : ConfigIsOpen(c, p))

is_in_edge(index) == index # <<1, 1>>

opening_in_edge(index, pos) ==
    CASE pos = "Top" -> index[1] = 0
      [] pos = "Bottom" -> index[1] = 2
      [] pos = "Left" -> index[2] = 0
      [] pos = "Right" -> index[2] = 2

\* a test that takes every path tile off the centre for a chain end
is_edge_path_any_opening(index, c) == is_path(c) /\ is_in_edge(index)
is_edge_path_chain_end(index, c) ==
    IF ~is_path(c) \/ ~is_in_edge(index)
    THEN FALSE
    ELSE LET o == openings(c)
         IN  opening_in_edge(index, o[1]) # opening_in_edge(index, o[2])

get_edge_path_chain_pos(index, c) ==
    LET o == openings(c)
    IN  IF has_neighbor(index, o[1]) THEN o[1] ELSE o[2]

\* a test of the relative position alone, whatever the state of the edge
connected_to_adjacent(index, c, other) == IsSome(relative_position(index, other))
connected_to(index, c, other) ==
    LET relpos == relative_position(index, other)
    IN  IF IsSome(relpos) THEN ConfigIsOpen(c, Unwrap(relpos)) ELSE FALSE

(***************************************************************************)
(* board.rs : Board::new, Board::mark                                      *)
(***************************************************************************)
BoardNew == [i \in TileIndex |-> TileConfigNew]

\* a mark that forgets to invert the position on the neighbor's side
Board_mark_no_invert(b, index, pos) ==
    LET b1 == [b EXCEPT ![index] = Tile_mark(b[index], pos)]
    IN  IF has_neighbor(index, pos)
        THEN LET n == Unwrap(at(index, pos))
             IN  [b1 EXCEPT ![n] = Tile_mark(b1[n], pos)]
        ELSE b1
Board_mark(b, index, pos) ==
    LET b1 == [b EXCEPT ![index] = Tile_mark(b[index], pos)]
    IN  IF has_neighbor(index, pos)
        THEN LET n == Unwrap(at(index, pos))
             IN  [b1 EXCEPT ![n] = Tile_mark(b1[n], invert(pos))]
        ELSE b1

(***************************************************************************)
(* tile.rs : Chain, ChainBuilder.  A builder operation yields a record     *)
(* with a panic flag: panic |-> TRUE is the abort of panic!() or of an     *)
(* unwrap() of None or of Vec::remove out of range.                        *)
(***************************************************************************)
\* Vec::remove(i) with i counted from 1
VecRemove(s, i) == [k \in 1..(Len(s) - 1) |-> IF k < i THEN s[k] ELSE s[k + 1]]

\* lines 360-369 and 391-400 on the openings o of a tile and the Option relpos:
\* remove(0) if the first opening is relpos, remove(1) otherwise, then take
\* the first opening left
OtherOpeningOf(o, relpos) ==
    IF ~IsSome(relpos) \/ Len(o) < 2
    THEN [panic |-> TRUE, pos |-> None]
    ELSE IF o[1] = Unwrap(relpos)
         THEN [panic |-> FALSE, pos |-> Some(VecRemove(o, 1)[1])]
         ELSE [panic |-> FALSE, pos |-> Some(VecRemove(o, 2)[1])]

OtherOpening(index, c, towards) ==
    OtherOpeningOf(openings(c), relative_position(index, towards))

ChainBuilderNew(first) ==
    [tiles |-> <<first>>, first_end_pos |-> None, second_end_pos |-> None]

\* the push at the end of add, with first_end_pos set from o when o is given
ChainBuilderPush(builder, tile, o) ==
    IF o.panic
    THEN [panic |-> TRUE, builder |-> builder]
    ELSE [panic |-> FALSE,
          builder |-> [tiles |-> Append(builder.tiles, tile),
                       first_end_pos |-> o.pos,
                       second_end_pos |-> builder.second_end_pos]]

ChainBuilder_add(b, builder, tile) ==
    IF ~is_end(b[tile]) /\ ~is_path(b[tile])
    THEN [panic |-> TRUE, builder |-> builder]
    ELSE IF ~adjacent_to(builder.tiles[Len(builder.tiles)], tile)
    THEN [panic |-> TRUE, builder |-> builder]
    ELSE IF Len(builder.tiles) = 1 /\ is_path(b[builder.tiles[1]])
    THEN ChainBuilderPush(builder, tile,
                          OtherOpening(builder.tiles[1], b[builder.tiles[1]], tile))
    ELSE ChainBuilderPush(builder, tile,
                          [panic |-> FALSE, pos |-> builder.first_end_pos])

NoChain == [first_end |-> <<>>, second_end |-> <<>>, tiles |-> <<>>]

ChainOf(builder, o) ==
    IF o.panic
    THEN [panic |-> TRUE, chain |-> NoChain]
    ELSE [panic |-> FALSE,
          chain |-> [first_end |-> <<builder.tiles[1], builder.first_end_pos>>,
                     second_end |-> <<builder.tiles[Len(builder.tiles)], o.pos>>,
                     tiles |-> builder.tiles]]

ChainBuilder_build(b, builder) ==
    IF Len(builder.tiles) = 1
    THEN [panic |-> TRUE, chain |-> NoChain]
    ELSE IF is_path(b[builder.tiles[Len(builder.tiles)]])
    THEN ChainOf(builder,
                 OtherOpening(builder.tiles[Len(builder.tiles)],
                              b[builder.tiles[Len(builder.tiles)]],
                              builder.tiles[Len(builder.tiles) - 1]))
    ELSE ChainOf(builder, [panic |-> FALSE, pos |-> builder.second_end_pos])

(***************************************************************************)
(* board.rs : Board::next_chain_tile, Board::get_chains                    *)
(***************************************************************************)
NextNone == [panic |-> FALSE, next |-> None]
NextPanic == [panic |-> TRUE, next |-> None]
NextSome(tile, pos) == [panic |-> FALSE, next |-> Some(<<tile, pos>>)]

\* the tile behind opening next_tile_pos, when it can be chained; idx is
\* at(next_tile_pos), and `unchecked` tells at_unchecked from at
NextThrough(b, idx, next_tile_pos, unchecked) ==
    IF ~IsSome(idx)
    THEN IF unchecked THEN NextPanic ELSE NextNone
    ELSE IF can_be_chained(b[Unwrap(idx)])
         THEN NextSome(Unwrap(idx), next_tile_pos)
         ELSE NextNone

\* lines 217-234: the opening of a tile other than the one arrived through
NextOfPath(b, last_tile, o, pos) ==
    IF Len(o) = 0
    THEN NextPanic
    ELSE IF o[1] = invert(pos)
    THEN IF Len(o) < 2
         THEN NextPanic
         ELSE NextThrough(b, at(last_tile, VecRemove(o, 1)[1]), VecRemove(o, 1)[1], FALSE)
    ELSE IF Len(o) < 2
         THEN NextPanic
         ELSE NextThrough(b, at(last_tile, VecRemove(o, 2)[1]), VecRemove(o, 2)[1], FALSE)

NextOfOpenings(b, last_tile, last_pos, o) ==
    IF Len(o) = 1
    THEN IF IsSome(last_pos)
         THEN NextNone
         ELSE NextThrough(b, at(last_tile, o[1]), o[1], TRUE)
    ELSE IF IsSome(last_pos)
         THEN NextOfPath(b, last_tile, o, Unwrap(last_pos))
         ELSE IF is_edge_path_chain_end(last_tile, b[last_tile])
              THEN NextThrough(b,
                               at(last_tile, get_edge_path_chain_pos(last_tile, b[last_tile])),
                               get_edge_path_chain_pos(last_tile, b[last_tile]),
                               TRUE)
              ELSE NextNone

\* last_pos is an Option<Position>; the result [panic, next] with next an
\* Option<(TileIndex, Position)>
next_chain_tile(b, last_tile, last_pos) ==
    NextOfOpenings(b, last_tile, last_pos, openings(b[last_tile]))

\* has_evaluated is kept as the set of tiles whose flag is true

\* the nine tiles in the order of `for x in 0..3 { for y in 0..3 {`
ScanOrder == <<<<0, 0>>, <<0, 1>>, <<0, 2>>, <<1, 0>>, <<1, 1>>, <<1, 2>>,
               <<2, 0>>, <<2, 1>>, <<2, 2>>>>

NoneEvaluated == {}

\* the `while let Some((tile, pos)) = next_chain_tile` loop (lines 65-77);
\* st = [ev, builder, chaining, panic], nx the pending result of next_chain_tile
RECURSIVE ChainGrow(_, _, _)

\* a check against the tiles of the chain under construction only
InThisChain(st, tile) == \E k \in 1..Len(st.builder.tiles) : st.builder.tiles[k] = tile
\* `has_evaluated[index.0][index.1]` (line 69)
HasEvaluated(st, tile) == tile \in st.ev

\* lines 74-76, with `added` the outcome of builder.add(&tile)
ChainGrowAdd(b, st, tile, pos, added) ==
    IF added.panic
    THEN [ev |-> st.ev \cup {tile}, builder |-> st.builder,
          chaining |-> TRUE, panic |-> TRUE]
    ELSE ChainGrow(b,
                   [ev |-> st.ev \cup {tile}, builder |-> added.builder,
                    chaining |-> TRUE, panic |-> FALSE],
                   next_chain_tile(b, tile, Some(pos)))

ChainGrow(b, st, nx) ==
    IF nx.panic
    THEN [st EXCEPT !.panic = TRUE]
    ELSE IF ~IsSome(nx.next)
    THEN st
    ELSE IF HasEvaluated(st, Unwrap(nx.next)[1])
    THEN [st EXCEPT !.chaining = TRUE]
    ELSE ChainGrowAdd(b, st, Unwrap(nx.next)[1], Unwrap(nx.next)[2],
                      ChainBuilder_add(b, st.builder, Unwrap(nx.next)[1]))

\* lines 79-81, with `built` the outcome of builder.build()
ChainScanPush(acc, ev, built) ==
    IF built.panic
    THEN [ev |-> ev, chains |-> acc.chains, panic |-> TRUE]
    ELSE [ev |-> ev, chains |-> Append(acc.chains, built.chain), panic |-> FALSE]

\* what follows the while loop for a seed, g being the loop's final state
ChainScanSeed(b, acc, g) ==
    IF g.panic
    THEN [ev |-> g.ev, chains |-> acc.chains, panic |-> TRUE]
    ELSE IF g.chaining
    THEN ChainScanPush(acc, g.ev, ChainBuilder_build(b, g.builder))
    ELSE [ev |-> g.ev, chains |-> acc.chains, panic |-> FALSE]

\* one iteration of the scan body (lines 52-85); acc = [ev, chains, panic]
ChainScanStep(b, acc, index) ==
    IF index \in acc.ev
    THEN acc
    ELSE IF is_end(b[index]) \/ is_edge_path_chain_end(index, b[index])
    THEN ChainScanSeed(b, acc,
                       ChainGrow(b,
                                 [ev |-> acc.ev \cup {index},
                                  builder |-> ChainBuilderNew(index),
                                  chaining |-> FALSE,
                                  panic |-> FALSE],
                                 next_chain_tile(b, index, None)))
    ELSE acc

RECURSIVE ChainScan(_, _, _)
ChainScan(b, acc, k) ==
    IF k > Len(ScanOrder) \/ acc.panic
    THEN acc
    ELSE ChainScan(b, ChainScanStep(b, acc, ScanOrder[k]), k + 1)

\* Board::get_chains: [panic, chains, ev]
get_chains(b) ==
    ChainScan(b, [ev |-> NoneEvaluated, chains |-> <<>>, panic |-> FALSE], 1)

(***************************************************************************)
(* tile.rs : Loop, LoopBuilder                                             *)
(***************************************************************************)
LoopBuilderNew(first) == <<first>>

LoopBuilder_add(b, builder, tile) ==
    IF ~is_path(b[tile])
    THEN [panic |-> TRUE, builder |-> builder]
    ELSE IF ~connected_to(builder[Len(builder)], b[builder[Len(builder)]], tile)
    THEN [panic |-> TRUE, builder |-> builder]
    ELSE [panic |-> FALSE, builder |-> Append(builder, tile)]

\* a build with no length check that leaves out the tile the builder began with
LoopBuilder_build_tail(b, builder) == [panic |-> FALSE, loop |-> Tail(builder)]
LoopBuilder_build(b, builder) ==
    IF Len(builder) < 4
    THEN [panic |-> TRUE, loop |-> <<>>]
    ELSE IF ~connected_to(builder[1], b[builder[1]], builder[Len(builder)])
    THEN [panic |-> TRUE, loop |-> <<>>]
    ELSE [panic |-> FALSE, loop |-> builder]

(***************************************************************************)
(* board.rs : Board::get_connected_neighbor, Board::get_loops              *)
(***************************************************************************)
\* the same without the test that skips the way back
ConnectedPositions_with_back(b, tile, without) ==
    SelectSeq(POSITIONS,
              LAMBDA pos : /\ IsSome(at(tile, pos))
                           /\ connected_to(tile, b[tile], Unwrap(at(tile, pos))))
\* the positions, in the order of POSITIONS, that pass the tests of the loop
ConnectedPositions(b, tile, without) ==
    SelectSeq(POSITIONS,
              LAMBDA pos : /\ ~(IsSome(without) /\ pos = invert(Unwrap(without)))
                           /\ IsSome(at(tile, pos))
                           /\ connected_to(tile, b[tile], Unwrap(at(tile, pos))))

FirstNeighbor(tile, hits) ==
    IF hits = <<>> THEN None ELSE Some(<<Unwrap(at(tile, hits[1])), hits[1]>>)

\* `without` is an Option<Position>; the result an Option<(TileIndex, Position)>
get_connected_neighbor(b, tile, without) ==
    FirstNeighbor(tile, ConnectedPositions(b, tile, without))

\* a probe walk is deterministic in (tile, last_pos): once it has taken more
\* steps than there are such pairs it repeats for ever
ProbeStates == Cardinality(TileIndex) * Len(POSITIONS)

\* the inner `loop` of get_loops (lines 117-139);
\* st = [ev, indices, builder, is_loop, panic, diverged, steps]
RECURSIVE LoopProbe(_, _, _, _, _)

\* line 135 and the next turn of the loop, `added` the outcome of builder.add
LoopProbeAdd(b, origin, st, neighbor, lp, added) ==
    IF added.panic
    THEN [st EXCEPT !.ev = st.ev \cup {neighbor},
                    !.indices = Append(st.indices, neighbor),
                    !.panic = TRUE]
    ELSE LoopProbe(b, origin,
                   [st EXCEPT !.ev = st.ev \cup {neighbor},
                              !.indices = Append(st.indices, neighbor),
                              !.builder = added.builder,
                              !.steps = st.steps + 1],
                   neighbor, Some(lp))

\* lines 120-138, nb the outcome of get_connected_neighbor
LoopProbeStep(b, origin, st, nb) ==
    IF ~IsSome(nb)
    THEN st
    ELSE IF Unwrap(nb)[1] = origin
    THEN [st EXCEPT !.ev = st.ev \cup {origin}, !.is_loop = TRUE]
    ELSE IF ~is_path(b[Unwrap(nb)[1]])
    THEN [st EXCEPT !.ev = st.ev \cup {Unwrap(nb)[1]},
                    !.indices = Append(st.indices, Unwrap(nb)[1])]
    ELSE LoopProbeAdd(b, origin, st, Unwrap(nb)[1], Unwrap(nb)[2],
                      LoopBuilder_add(b, st.builder, Unwrap(nb)[1]))

LoopProbe(b, origin, st, tile, last_pos) ==
    IF st.steps > ProbeStates
    THEN [st EXCEPT !.diverged = TRUE]
    ELSE LoopProbeStep(b, origin, st, get_connected_neighbor(b, tile, last_pos))

\* has_evaluated with every tile listed in `indices` reset (lines 145-147)
ResetIndices(ev, indices) == ev \ {indices[k] : k \in 1..Len(indices)}

\* the record kept of one probe: its origin, whether it closed, has_evaluated
\* before and after it, and the tiles it walked
ProbeRecord(origin, acc, g, after) ==
    [origin |-> origin, is_loop |-> g.is_loop, before |-> acc.ev,
     after |-> after, walked |-> g.builder]

\* line 143, `built` the outcome of builder.build()
LoopScanPush(origin, acc, g, built) ==
    IF built.panic
    THEN [acc EXCEPT !.ev = g.ev, !.indices = g.indices, !.panic = TRUE]
    ELSE [acc EXCEPT !.ev = g.ev, !.indices = g.indices,
                     !.loops = Append(acc.loops, built.loop),
                     !.probes = Append(acc.probes, ProbeRecord(origin, acc, g, g.ev))]

\* lines 141-148, g being the final state of the probe from `origin`
LoopScanProbed(b, origin, acc, g) ==
    IF g.panic \/ g.diverged
    THEN [acc EXCEPT !.ev = g.ev, !.indices = g.indices,
                     !.panic = g.panic, !.diverged = g.diverged]
    ELSE IF g.is_loop
    THEN LoopScanPush(origin, acc, g, LoopBuilder_build(b, g.builder))
    ELSE [acc EXCEPT !.ev = ResetIndices(g.ev, g.indices),
                     !.indices = g.indices,
                     !.probes = Append(acc.probes,
                                       ProbeRecord(origin, acc, g,
                                                   ResetIndices(g.ev, g.indices)))]

\* one iteration of the scan body (lines 99-149);
\* acc = [ev, loops, indices, panic, diverged, probes]
LoopScanStep(b, acc, index) ==
    IF index \in acc.ev
    THEN acc
    ELSE IF ~is_path(b[index])
    THEN [acc EXCEPT !.ev = acc.ev \cup {index}]
    ELSE LoopScanProbed(b, index, acc,
                        LoopProbe(b, index,
                                  [ev |-> acc.ev \cup {index}, indices |-> acc.indices,
                                   builder |-> LoopBuilderNew(index), is_loop |-> FALSE,
                                   panic |-> FALSE, diverged |-> FALSE, steps |-> 0],
                                  index, None))

RECURSIVE LoopScan(_, _, _)
LoopScan(b, acc, k) ==
    IF k > Len(ScanOrder) \/ acc.panic \/ acc.diverged
    THEN acc
    ELSE LoopScan(b, LoopScanStep(b, acc, ScanOrder[k]), k + 1)

\* Board::get_loops: [panic, diverged, loops, ev, indices, probes]
get_loops(b) ==
    LoopScan(b, [ev |-> NoneEvaluated, loops |-> <<>>, indices |-> <<>>,
                 panic |-> FALSE, diverged |-> FALSE, probes |-> <<>>], 1)

(***************************************************************************)
(* tile.rs : Tile::open_to_outside                                         *)
(***************************************************************************)
open_to_outside(index, c) ==
    \E pos \in Position : ConfigIsOpen(c, pos) /\ ~has_neighbor(index, pos)

(***************************************************************************)
(* Game and Player (crate::board::{Game, Player}, used by agent.rs).       *)
(* A game value is a record [tiles, player, captured].                     *)
(***************************************************************************)
Player == {"Odd", "Even"}

opponent(p) == IF p = "Odd" THEN "Even" ELSE "Odd"

NoOwner == "None"

Game_new == [tiles |-> BoardNew,
             player |-> "Odd",
             captured |-> [i \in TileIndex |-> NoOwner]]

player_to_play(g) == g.player

\* Board::acquisitions: TRUE where the tile has no undrawn edge left
acquisitions(b) == [i \in TileIndex |-> openings(b[i]) = <<>>]

\* every undrawn (tile, position) pair, tiles row by row, positions in the
\* order of POSITIONS; an interior edge is listed by both of its tiles
MovesOf(index, o) == [n \in 1..Len(o) |-> <<index, o[n]>>]

RECURSIVE MovesFrom(_, _)
MovesFrom(b, k) ==
    IF k > Len(ScanOrder)
    THEN <<>>
    ELSE MovesOf(ScanOrder[k], openings(b[ScanOrder[k]])) \o MovesFrom(b, k + 1)

available_moves(g) == MovesFrom(g.tiles, 1)

ended(g) == available_moves(g) = <<>>

\* the captured grid once the boxes closed on board b are credited to p
Credit(g, b, p) ==
    [i \in TileIndex |->
        IF acquisitions(b)[i] /\ g.captured[i] = NoOwner THEN p ELSE g.captured[i]]

\* a play that leaves the turn with the mover when it closed a box
Played_keeps_turn(g, b) ==
    [tiles |-> b,
     player |-> IF Credit(g, b, g.player) # g.captured THEN g.player ELSE opponent(g.player),
     captured |-> Credit(g, b, g.player)]
\* the position after the mark gave board b
Played(g, b) ==
    [tiles |-> b, player |-> opponent(g.player), captured |-> Credit(g, b, g.player)]

Game_play(g, index, pos) == Played(g, Board_mark(g.tiles, index, pos))

\* Board::free_edge_squares: "end" tiles whose opening faces the boundary
free_edge_squares(b) ==
    Cardinality({i \in TileIndex : is_end(b[i]) /\ open_to_outside(i, b[i])})

\* the (tile, position) candidates of safe_moves_count: every undrawn edge
\* once, an interior edge under its top or left tile
SafeCandidates(b) ==
    {m \in TileIndex \X Position :
        /\ ConfigIsOpen(b[m[1]], m[2])
        /\ (has_neighbor(m[1], m[2]) => m[2] \in {"Bottom", "Right"})}

\* Board::safe_moves_count: candidates that leave neither the tile nor its
\* mirrored neighbor one edge from capture
safe_moves_count(b) ==
    Cardinality({m \in SafeCandidates(b) :
        /\ ~is_path(b[m[1]])
        /\ (has_neighbor(m[1], m[2]) => ~is_path(b[Unwrap(at(m[1], m[2]))]))})

CapturedBy(g, p) == Cardinality({i \in TileIndex : g.captured[i] = p})

ChainLen(ch) == Len(ch.tiles)

\* number of ends of a chain that carry a free opening
FreeEnds(ch) == B2I(IsSome(ch.first_end[2])) + B2I(IsSome(ch.second_end[2]))

ChainValue(ch) ==
    IF ChainLen(ch) <= 2
    THEN IF FreeEnds(ch) = 0 THEN 2 ELSE -2
    ELSE CASE FreeEnds(ch) = 0 -> ChainLen(ch)
           [] FreeEnds(ch) = 1 -> ChainLen(ch) - 4
           [] OTHER -> -(4 - ChainLen(ch))

RECURSIVE SumChains(_, _)
SumChains(chains, k) ==
    IF k > Len(chains) THEN 0 ELSE ChainValue(chains[k]) + SumChains(chains, k + 1)

RECURSIVE SumLoops(_, _)
SumLoops(loops, k) ==
    IF k > Len(loops) THEN 0 ELSE SumLoops(loops, k + 1) - Len(loops[k])

\* the sign of control: parity of the safe moves against who is to move
Factor(g, perspective) ==
    IF (safe_moves_count(g.tiles) % 2 = 1) = (perspective = g.player) THEN 1 ELSE -1

\* a value that adds the boxes of the perspective player and leaves the
\* opponent's out
UtilityOf_own_boxes(g, perspective, c, l) ==
    IF c.panic \/ l.panic \/ l.diverged
    THEN [panic |-> TRUE, value |-> 0]
    ELSE [panic |-> FALSE,
          value |-> Factor(g, perspective)
                      * (SumChains(c.chains, 1) + SumLoops(l.loops, 1)
                         + free_edge_squares(g.tiles))
                    + CapturedBy(g, perspective)]

\* the value of a position whose discovery gave c (chains) and l (loops)
UtilityOf(g, perspective, c, l) ==
    IF c.panic \/ l.panic \/ l.diverged
    THEN [panic |-> TRUE, value |-> 0]
    ELSE [panic |-> FALSE,
          value |-> Factor(g, perspective)
                      * (SumChains(c.chains, 1) + SumLoops(l.loops, 1)
                         + free_edge_squares(g.tiles))
                    + CapturedBy(g, perspective)
                    - CapturedBy(g, opponent(perspective))]

\* Game::utility: [panic, value]; it aborts when the discovery aborts
utility(g, perspective) ==
    UtilityOf(g, perspective, get_chains(g.tiles), get_loops(g.tiles))

(***************************************************************************)
(* agent.rs : Agent::ab_search, Agent::max, Agent::min.  A search result   *)
(* is [panic, action, value, played]: played counts the moves the search   *)
(* applied to clones (calls of Game::play).                                *)
(***************************************************************************)
I32Max == 2147483647
I32Min == -I32Max - 1

NULL_ACTION == <<<<3, 3>>, "Right">>

SearchPanic(played) ==
    [panic |-> TRUE, action |-> NULL_ACTION, value |-> 0, played |-> played]

SearchResult(action, v, played) ==
    [panic |-> FALSE, action |-> action, value |-> v, played |-> played]

\* `return (NULL_ACTION, game.utility(self.turn))`, u the utility
LeafOf(u) ==
    [panic |-> u.panic, action |-> NULL_ACTION, value |-> u.value, played |-> 0]

\* the test of min where the test of max belongs
MaxTurnInverted(turn, g) == turn # player_to_play(g)
\* no test at all
MaxTurnUnchecked(turn, g) == TRUE
\* the turn checks at the head of max and min (lines 30, 83)
MaxTurnOk(turn, g) == turn = player_to_play(g)

MinTurnOk(turn, g) == turn # player_to_play(g)

\* the cut-off tests (lines 63, 115)
MaxCutoff(v, beta) == v >= beta

MinCutoffFlipped(v, alpha) == v >= alpha
MinCutoff(v, alpha) == v <= alpha

RECURSIVE Agent_max(_, _, _, _)
RECURSIVE Agent_min(_, _, _, _)
RECURSIVE MaxLoop(_, _, _, _, _, _, _, _, _)
RECURSIVE MinLoop(_, _, _, _, _, _, _, _, _)

\* lines 50-56: the routine chosen for the successor, and its result
MaxChild(turn, g, new_state, alpha, beta) ==
    IF player_to_play(g) = player_to_play(new_state)
    THEN Agent_max(turn, new_state, alpha, beta)
    ELSE Agent_min(turn, new_state, alpha, beta)

\* lines 63-72 with the running best (action, v) already updated
MaxAfter(turn, g, moves, k, alpha, beta, action, v, played) ==
    IF MaxCutoff(v, beta)
    THEN SearchResult(moves[k], v, played)
    ELSE MaxLoop(turn, g, moves, k + 1, IF v > alpha THEN v ELSE alpha, beta,
                 action, v, played)

\* an update of the best value that leaves the best action as it was
MaxStep_keeps_action(turn, g, moves, k, alpha, beta, action, v, played, r) ==
    IF r.panic
    THEN SearchPanic(played + 1 + r.played)
    ELSE MaxAfter(turn, g, moves, k, alpha, beta, action,
                  IF r.value > v THEN r.value ELSE v, played + 1 + r.played)

\* lines 58-61 with `val >= v`: an equal value replaces the action
MaxStep_takes_equal(turn, g, moves, k, alpha, beta, action, v, played, r) ==
    IF r.panic
    THEN SearchPanic(played + 1 + r.played)
    ELSE IF r.value >= v
    THEN MaxAfter(turn, g, moves, k, alpha, beta, moves[k], r.value,
                  played + 1 + r.played)
    ELSE MaxAfter(turn, g, moves, k, alpha, beta, action, v, played + 1 + r.played)

\* lines 58-61 for the result r of the successor of moves[k]
MaxStep(turn, g, moves, k, alpha, beta, action, v, played, r) ==
    IF r.panic
    THEN SearchPanic(played + 1 + r.played)
    ELSE IF r.value > v
    THEN MaxAfter(turn, g, moves, k, alpha, beta, moves[k], r.value,
                  played + 1 + r.played)
    ELSE MaxAfter(turn, g, moves, k, alpha, beta, action, v, played + 1 + r.played)

\* the `for (index, pos) in game.available_moves()` loop of max (lines 46-79)
MaxLoop(turn, g, moves, k, alpha, beta, action, v, played) ==
    IF k > Len(moves)
    THEN SearchResult(action, v, played)
    ELSE MaxStep(turn, g, moves, k, alpha, beta, action, v, played,
                 MaxChild(turn, g, Game_play(g, moves[k][1], moves[k][2]), alpha, beta))

\* the two routines of lines 102-106 taken for one another
MinChild_swapped(turn, g, new_state, alpha, beta) ==
    IF player_to_play(g) = player_to_play(new_state)
    THEN Agent_max(turn, new_state, alpha, beta)
    ELSE Agent_min(turn, new_state, alpha, beta)

\* lines 102-108
MinChild(turn, g, new_state, alpha, beta) ==
    IF player_to_play(g) = player_to_play(new_state)
    THEN Agent_min(turn, new_state, alpha, beta)
    ELSE Agent_max(turn, new_state, alpha, beta)

\* lines 115-125
MinAfter(turn, g, moves, k, alpha, beta, action, v, played) ==
    IF MinCutoff(v, alpha)
    THEN SearchResult(moves[k], v, played)
    ELSE MinLoop(turn, g, moves, k + 1, alpha, IF v < beta THEN v ELSE beta,
                 action, v, played)

\* lines 110-113
MinStep(turn, g, moves, k, alpha, beta, action, v, played, r) ==
    IF r.panic
    THEN SearchPanic(played + 1 + r.played)
    ELSE IF r.value < v
    THEN MinAfter(turn, g, moves, k, alpha, beta, moves[k], r.value,
                  played + 1 + r.played)
    ELSE MinAfter(turn, g, moves, k, alpha, beta, action, v, played + 1 + r.played)

\* the loop of min (lines 98-132)
MinLoop(turn, g, moves, k, alpha, beta, action, v, played) ==
    IF k > Len(moves)
    THEN SearchResult(action, v, played)
    ELSE MinStep(turn, g, moves, k, alpha, beta, action, v, played,
                 MinChild(turn, g, Game_play(g, moves[k][1], moves[k][2]), alpha, beta))

Agent_max(turn, g, alpha, beta) ==
    IF ~MaxTurnOk(turn, g)
    THEN SearchPanic(0)
    ELSE IF ended(g)
    THEN LeafOf(utility(g, turn))
    ELSE MaxLoop(turn, g, available_moves(g), 1, alpha, beta, NULL_ACTION, I32Min, 0)

Agent_min(turn, g, alpha, beta) ==
    IF ~MinTurnOk(turn, g)
    THEN SearchPanic(0)
    ELSE IF ended(g)
    THEN LeafOf(utility(g, turn))
    ELSE MinLoop(turn, g, available_moves(g), 1, alpha, beta, NULL_ACTION, I32Max, 0)

\* Agent::new(game, turn).ab_search()
ab_search(g, turn) == Agent_max(turn, g, I32Min, I32Max)

(***************************************************************************)
(* The 24 physical edges: a boundary edge under its one tile, an interior  *)
(* edge under its top or left tile.                                        *)
(***************************************************************************)
Edges ==
    {e \in TileIndex \X Position :
        has_neighbor(e[1], e[2]) => e[2] \in {"Bottom", "Right"}}

\* an edge counts as drawn when a tile that observes it has it marked
EdgeDrawn(b, e) ==
    \/ ~ConfigIsOpen(b[e[1]], e[2])
    \/ /\ has_neighbor(e[1], e[2])
       /\ ~ConfigIsOpen(b[Unwrap(at(e[1], e[2]))], invert(e[2]))

DrawnEdges(b) == {e \in Edges : EdgeDrawn(b, e)}

UndrawnEdgeCount(b) == Cardinality(Edges) - Cardinality(DrawnEdges(b))

(***************************************************************************)
(* Positions the exploration starts from: the new game and the positions   *)
(* the repository's tests set up by replaying their moves.                 *)
(***************************************************************************)
\* board.rs tests::chain
TestChain ==
    << <<TOP_LEFT, "Top">>, <<TOP_LEFT, "Bottom">>, <<TOP_CENTER, "Bottom">>,
       <<TOP_CENTER, "Right">>, <<TOP_RIGHT, "Right">>, <<MIDDLE_LEFT, "Left">>,
       <<CENTER, "Bottom">>, <<MIDDLE_RIGHT, "Bottom">>, <<MIDDLE_RIGHT, "Right">>,
       <<BOTTOM_LEFT, "Right">>, <<BOTTOM_LEFT, "Left">>, <<BOTTOM_RIGHT, "Bottom">> >>

\* board.rs tests::loops
TestLoops ==
    << <<TOP_LEFT, "Top">>, <<TOP_LEFT, "Left">>, <<TOP_CENTER, "Top">>,
       <<TOP_CENTER, "Right">>, <<MIDDLE_LEFT, "Left">>, <<MIDDLE_LEFT, "Bottom">>,
       <<CENTER, "Bottom">>, <<CENTER, "Right">>, <<BOTTOM_RIGHT, "Right">>,
       <<BOTTOM_RIGHT, "Bottom">> >>

\* agent.rs tests::a
TestA ==
    << <<TOP_LEFT, "Top">>, <<TOP_LEFT, "Bottom">>, <<TOP_CENTER, "Bottom">>,
       <<TOP_CENTER, "Right">>, <<TOP_RIGHT, "Right">>, <<MIDDLE_LEFT, "Left">>,
       <<CENTER, "Bottom">>, <<MIDDLE_RIGHT, "Bottom">>, <<MIDDLE_RIGHT, "Right">>,
       <<BOTTOM_LEFT, "Right">>, <<BOTTOM_LEFT, "Left">> >>

\* agent.rs tests::b
TestB ==
    << <<TOP_LEFT, "Top">>, <<TOP_CENTER, "Top">>, <<TOP_RIGHT, "Top">>,
       <<TOP_LEFT, "Bottom">>, <<TOP_CENTER, "Bottom">>, <<TOP_RIGHT, "Bottom">>,
       <<BOTTOM_LEFT, "Top">>, <<BOTTOM_CENTER, "Top">>, <<BOTTOM_RIGHT, "Top">>,
       <<TOP_LEFT, "Right">>, <<MIDDLE_LEFT, "Right">>, <<BOTTOM_LEFT, "Right">>,
       <<BOTTOM_LEFT, "Bottom">>, <<BOTTOM_RIGHT, "Right">>,
       <<TOP_LEFT, "Left">>, <<MIDDLE_LEFT, "Left">>, <<BOTTOM_LEFT, "Left">>,
       <<TOP_RIGHT, "Right">>, <<TOP_RIGHT, "Left">> >>

\* tests::b followed by the first reply its comments list (line 224)
TestBReply == Append(TestB, <<MIDDLE_RIGHT, "Right">>)

Openings == {<<>>, TestChain, TestLoops, TestA, TestB, TestBReply}

RECURSIVE Replay(_, _, _)
Replay(g, script, k) ==
    IF k > Len(script)
    THEN g
    ELSE Replay(Game_play(g, script[k][1], script[k][2]), script, k + 1)

(***************************************************************************)
(* State machine of a game: play, and the queries made on a position.      *)
(* out records the last operation, its argument and its result.            *)
(***************************************************************************)
Game == [tiles |-> tiles, player |-> player, captured |-> captured]

NoRes == <<>>

\* the process has aborted in the last operation
Aborted ==
    /\ out.op \in {"get_chains", "get_loops", "ab_search"}
    /\ out.res.panic

Init ==
    \E o \in Openings :
        \E g \in {Replay(Game_new, o, 1)} :
            /\ tiles = g.tiles
            /\ player = g.player
            /\ captured = g.captured
            /\ plays = Len(o)
            /\ depth = 0
            /\ out = [op |-> "new", arg |-> NoRes, res |-> NoRes]

\* Game::play on a currently undrawn (tile, position)
Play(index, pos) ==
    /\ ~Aborted
    /\ depth < MaxPlays
    /\ ConfigIsOpen(tiles[index], pos)
    /\ \E g \in {Game_play(Game, index, pos)} :
           /\ tiles' = g.tiles
           /\ player' = g.player
           /\ captured' = g.captured
    /\ plays' = plays + 1
    /\ depth' = depth + 1
    /\ out' = [op |-> "play", arg |-> NoRes, res |-> NoRes]

GetChains ==
    /\ ~Aborted
    /\ out' = [op |-> "get_chains", arg |-> NoRes, res |-> get_chains(tiles)]
    /\ UNCHANGED <<tiles, player, captured, plays, depth>>

GetLoops ==
    /\ ~Aborted
    /\ out' = [op |-> "get_loops", arg |-> NoRes, res |-> get_loops(tiles)]
    /\ UNCHANGED <<tiles, player, captured, plays, depth>>

\* a clone that shares its tiles with the held game: the first move a search
\* applies is drawn on the held board too
HeldGame_shares_tiles(g, res) ==
    IF res.played = 0
    THEN g
    ELSE [tiles |-> Board_mark(g.tiles, available_moves(g)[1][1], available_moves(g)[1][2]),
          player |-> g.player,
          captured |-> g.captured]
\* the game the agent holds once its search returned res: ab_search hands max
\* a clone of it (line 26) and max and min play on clones (lines 47-48,
\* 99-100); a clone copies the tiles by value
HeldGame(g, res) == g

\* Agent::new(Rc::new(game), turn).ab_search()
AbSearch(turn) ==
    /\ ~Aborted
    /\ UndrawnEdgeCount(tiles) <= MaxSearchOpen
    /\ \E r \in {ab_search(Game, turn)} :
           /\ out' = [op |-> "ab_search", arg |-> turn, res |-> r]
           /\ tiles' = HeldGame(Game, r).tiles
           /\ player' = HeldGame(Game, r).player
           /\ captured' = HeldGame(Game, r).captured
    /\ UNCHANGED <<plays, depth>>

Next ==
    \/ \E index \in TileIndex, pos \in Position : Play(index, pos)
    \/ GetChains
    \/ GetLoops
    \/ \E turn \in Player : AbSearch(turn)

Spec == Init /\ [][Next]_vars

(***************************************************************************)
(* State machine of a bare Board: any sequence of Board::mark calls.       *)
(***************************************************************************)
MaxMarks == 4

InitBoard ==
    /\ tiles = BoardNew
    /\ player = Game_new.player
    /\ captured = Game_new.captured
    /\ plays = 0
    /\ depth = 0
    /\ out = [op |-> "new", arg |-> NoRes, res |-> NoRes]

Mark(index, pos) ==
    /\ depth < MaxMarks
    /\ tiles' = Board_mark(tiles, index, pos)
    /\ depth' = depth + 1
    /\ out' = [op |-> "mark", arg |-> <<index, pos>>, res |-> NoRes]
    /\ UNCHANGED <<player, captured, plays>>

NextBoard == \E index \in TileIndex, pos \in Position : Mark(index, pos)

SpecBoard == InitBoard /\ [][NextBoard]_vars

(***************************************************************************)
(* Properties.                                                             *)
(***************************************************************************)
SeqSet(q) == {q[k] : k \in 1..Len(q)}

NoRepeat(q) == Cardinality(SeqSet(q)) = Len(q)

\* C1: after any sequence of Board::mark calls from a new board, the two
\* copies of every interior edge agree: t.is_open(pos) equals
\* n.is_open(pos.invert()) for every tile t with a neighbor n at pos.
C1_MirrorConsistent ==
    \A t \in TileIndex, pos \in Position :
        has_neighbor(t, pos) =>
            (ConfigIsOpen(tiles[t], pos)
                = ConfigIsOpen(tiles[Unwrap(at(t, pos))], invert(pos)))

\* a mark of an interior edge has just been made and both copies show it
C1_Witness ==
    /\ out.op = "mark"
    /\ has_neighbor(out.arg[1], out.arg[2])
    /\ ~ConfigIsOpen(tiles[out.arg[1]], out.arg[2])
    /\ ~ConfigIsOpen(tiles[Unwrap(at(out.arg[1], out.arg[2]))], invert(out.arg[2]))
    /\ depth >= 2

\* C2: on every board reached by marking only open edges, get_chains runs
\* to completion: it never builds a chain of its seed tile alone and never
\* adds a tile that ChainBuilder::add rejects (no abort).
C2_GetChainsCompletes ==
    out.op = "get_chains" => ~out.res.panic

\* C3: the loops returned by one get_loops scan are pairwise disjoint as
\* tile sets and no loop lists a tile twice.
C3_LoopsDisjoint ==
    (out.op = "get_loops" /\ ~out.res.panic /\ ~out.res.diverged) =>
        /\ \A i \in 1..Len(out.res.loops) : NoRepeat(out.res.loops[i])
        /\ \A i, j \in 1..Len(out.res.loops) :
               i # j => SeqSet(out.res.loops[i]) \cap SeqSet(out.res.loops[j]) = {}

\* the number of sides of a tile that are not drawn
UndrawnCount(c) == Cardinality({pos \in Position : ConfigIsOpen(c, pos)})

\* C4: for every tile state, is_end() is true exactly when the tile has
\* exactly one undrawn edge (three drawn edges).
C4_IsEndOneUndrawn ==
    \A i \in TileIndex : is_end(tiles[i]) <=> UndrawnCount(tiles[i]) = 1

\* the set of legal moves of a position
MoveSet(g) == {m \in TileIndex \X Position : ConfigIsOpen(g.tiles[m[1]], m[2])}

SetMax(S) == CHOOSE x \in S : \A y \in S : y <= x
SetMin(S) == CHOOSE x \in S : \A y \in S : x <= y

\* exhaustive minimax: maximise where `turn` moves, minimise elsewhere,
\* leaves valued by utility(turn)
RECURSIVE Minimax(_, _)
Minimax(g, turn) ==
    IF ended(g)
    THEN utility(g, turn).value
    ELSE IF player_to_play(g) = turn
    THEN SetMax({Minimax(Game_play(g, m[1], m[2]), turn) : m \in MoveSet(g)})
    ELSE SetMin({Minimax(Game_play(g, m[1], m[2]), turn) : m \in MoveSet(g)})

\* the number of moves an unpruned search applies below a position
RECURSIVE TreePlays(_)
TreePlays(g) ==
    IF ended(g)
    THEN 0
    ELSE LET kids == available_moves(g)
             F[k \in 0..Len(kids)] ==
                 IF k = 0 THEN 0
                 ELSE F[k - 1] + 1 + TreePlays(Game_play(g, kids[k][1], kids[k][2]))
         IN  F[Len(kids)]

\* C5: at a non-terminal state with the perspective player to move, the
\* utility ab_search returns equals the exhaustive unpruned minimax value.
C5_PruningExact ==
    (out.op = "ab_search" /\ out.arg = player /\ ~ended(Game)) =>
        /\ ~out.res.panic
        /\ out.res.value = Minimax(Game, out.arg)

\* a search that pruned: it applied fewer moves than the full tree holds
C5_Witness ==
    /\ out.op = "ab_search"
    /\ out.arg = player
    /\ ~ended(Game)
    /\ ~out.res.panic
    /\ UndrawnEdgeCount(tiles) >= 3
    /\ out.res.played < TreePlays(Game)

\* C6: ab_search called while the perspective player is not the player to
\* move aborts before any move is evaluated and returns no result.
C6_WrongTurnAborts ==
    (out.op = "ab_search" /\ out.arg # player) =>
        /\ out.res.panic
        /\ out.res.played = 0

\* an out-of-turn search on a position that still has moves
C6_Witness ==
    /\ out.op = "ab_search"
    /\ out.arg # player
    /\ ~ended(Game)
    /\ out.res.panic

\* C7: playing each of the 24 edges once, ended() is false after each of
\* the first 23 plays and true after the 24th.
C7_EndedAt24 ==
    /\ plays < Cardinality(Edges) => ~ended(Game)
    /\ plays = Cardinality(Edges) => ended(Game)

\* the 24th play has been made
C7_Witness ==
    /\ out.op = "play"
    /\ plays = Cardinality(Edges)
    /\ ended(Game)

\* C8: every play on an open edge raises the number of distinct drawn
\* edges, counted over the 24 physical edges, by exactly one, for a
\* boundary edge and for an interior edge alike.
C8_OneEdgePerPlay ==
    [][plays' = plays + 1 =>
          Cardinality(DrawnEdges(tiles')) = Cardinality(DrawnEdges(tiles)) + 1]_vars

\* the first play of a game was on an interior edge: two tiles show it,
\* one edge is drawn
C8_Witness ==
    /\ out.op = "play"
    /\ plays = 1
    /\ Cardinality(DrawnEdges(tiles)) = 1
    /\ \E t \in TileIndex, pos \in Position :
           /\ has_neighbor(t, pos)
           /\ ~ConfigIsOpen(tiles[t], pos)
           /\ ~ConfigIsOpen(tiles[Unwrap(at(t, pos))], invert(pos))

\* all four edges around box i are drawn, each edge read from any tile that
\* observes it
BoxClosed(b, i) ==
    \A pos \in Position :
        \/ ~ConfigIsOpen(b[i], pos)
        \/ /\ has_neighbor(i, pos)
           /\ ~ConfigIsOpen(b[Unwrap(at(i, pos))], invert(pos))

\* C9: a box has an owner exactly when its four edges are drawn; the owner
\* is the player whose move drew the last of them; once set, the owner is
\* never changed or cleared by a later play.
C9_Ownership ==
    /\ [](\A i \in TileIndex : (captured[i] # NoOwner) <=> BoxClosed(tiles, i))
    /\ [][\A i \in TileIndex :
             /\ (captured[i] = NoOwner /\ captured'[i] # NoOwner) =>
                    /\ plays' = plays + 1
                    /\ captured'[i] = player
                    /\ ~BoxClosed(tiles, i)
                    /\ BoxClosed(tiles', i)
             /\ captured[i] # NoOwner => captured'[i] = captured[i]]_vars

\* a finished game: every box has an owner, and both players own some
C9_Witness ==
    /\ out.op = "play"
    /\ plays = Cardinality(Edges)
    /\ \A i \in TileIndex : captured[i] # NoOwner
    /\ \E i, j \in TileIndex : captured[i] = "Odd" /\ captured[j] = "Even"

\* C10: when get_chains completes, the chains it returns are pairwise
\* disjoint as tile sets and no chain lists a tile twice.
C10_ChainsDisjoint ==
    (out.op = "get_chains" /\ ~out.res.panic) =>
        /\ \A i \in 1..Len(out.res.chains) : NoRepeat(out.res.chains[i].tiles)
        /\ \A i, j \in 1..Len(out.res.chains) :
               i # j => SeqSet(out.res.chains[i].tiles)
                            \cap SeqSet(out.res.chains[j].tiles) = {}

\* a completed scan that returned at least two chains
C10_Witness ==
    /\ out.op = "get_chains"
    /\ ~out.res.panic
    /\ Len(out.res.chains) >= 2

\* the tiles of all the chains, resp. loops, of a scan result
ChainTiles(chains) == UNION {SeqSet(chains[k].tiles) : k \in 1..Len(chains)}

LoopTiles(loops) == UNION {SeqSet(loops[k]) : k \in 1..Len(loops)}

\* chains c and loops l of completed scans share no tile
SharesNoTile(c, l) ==
    (~c.panic /\ ~l.panic /\ ~l.diverged) =>
        ChainTiles(c.chains) \cap LoopTiles(l.loops) = {}

\* C11: on one board, no tile belongs both to a chain returned by
\* get_chains and to a loop returned by get_loops.
C11_ChainLoopDisjoint ==
    out.op = "get_loops" => SharesNoTile(get_chains(tiles), out.res)

\* both scans completed on the board, each returning something
BothFound(c, l) ==
    /\ ~c.panic /\ ~l.panic /\ ~l.diverged
    /\ Len(c.chains) >= 1
    /\ Len(l.loops) >= 1

\* a board on which get_chains returns a chain and get_loops a loop
C11_Witness ==
    out.op = "get_loops" /\ BothFound(get_chains(tiles), out.res)

\* C12: every loop returned by get_loops contains at least 4 tiles.
C12_LoopMinLength ==
    out.op = "get_loops" =>
        \A k \in 1..Len(out.res.loops) : Len(out.res.loops[k]) >= 4

\* a completed scan that returned a loop
C12_Witness ==
    /\ out.op = "get_loops"
    /\ ~out.res.panic
    /\ ~out.res.diverged
    /\ Len(out.res.loops) >= 1

\* C13: at a non-terminal state with the perspective player to move, the
\* action ab_search returns is one of the state's available moves (an
\* undrawn (tile, position) pair) and never the sentinel ((3,3), Right).
C13_ActionLegal ==
    (out.op = "ab_search" /\ out.arg = player /\ ~ended(Game)) =>
        /\ ~out.res.panic
        /\ out.res.action # NULL_ACTION
        /\ out.res.action \in SeqSet(available_moves(Game))
        /\ ConfigIsOpen(tiles[out.res.action[1]], out.res.action[2])

\* an in-turn search on a position with several moves to choose from
C13_Witness ==
    /\ out.op = "ab_search"
    /\ out.arg = player
    /\ ~out.res.panic
    /\ Len(available_moves(Game)) >= 3
    /\ out.res.action \in SeqSet(available_moves(Game))

\* the position of agent.rs tests::a: its 11 moves replayed on a new game
AtTestA ==
    /\ depth = 0
    /\ plays = Len(TestA)
    /\ tiles = Replay(Game_new, TestA, 1).tiles

\* C14: after the 11 moves of tests::a from a new game no box is captured
\* by either player and the player to move is the second player, so the
\* turn check of ab_search for the second player passes.
C14_TestAPosition ==
    AtTestA =>
        /\ \A i \in TileIndex : captured[i] = NoOwner
        /\ CapturedBy(Game, "Odd") = 0
        /\ CapturedBy(Game, "Even") = 0
        /\ player = opponent(Game_new.player)
        /\ player = "Even"
        /\ MaxTurnOk("Even", Game)

\* the position of tests::a, with its 11 drawn edges
C14_Witness ==
    /\ AtTestA
    /\ Cardinality(DrawnEdges(tiles)) = 11

\* C15: ab_search never mutates the game the agent was constructed with:
\* after the search returns, its drawn edges, box owners and player to
\* move are what they were before the call.
C15_SearchKeepsGame ==
    [][out'.op = "ab_search" =>
          /\ tiles' = tiles
          /\ DrawnEdges(tiles') = DrawnEdges(tiles)
          /\ captured' = captured
          /\ player' = player]_vars

\* a search that applied moves and returned one: its edge is still undrawn
\* in the held game
C15_Witness ==
    /\ out.op = "ab_search"
    /\ ~out.res.panic
    /\ out.res.played > 0
    /\ out.res.action # NULL_ACTION
    /\ ConfigIsOpen(tiles[out.res.action[1]], out.res.action[2])

\* C16: every play hands the turn to the opponent of the player who
\* moved, also when the move closes one or two boxes; so after k plays
\* from a new game the starting player is to move exactly when k is even.
C16_TurnAlternates ==
    /\ [](player = Game_new.player <=> plays % 2 = 0)
    /\ [][plays' = plays + 1 => player' = opponent(player)]_vars

\* the 24th play closed the last box for its mover and the turn passed on
C16_Witness ==
    /\ out.op = "play"
    /\ plays = Cardinality(Edges)
    /\ player = Game_new.player
    /\ \E i \in TileIndex : captured[i] = opponent(player)

\* C17: every tile of every chain returned by get_chains has exactly one
\* or exactly two undrawn edges; no tile with three or four undrawn edges
\* and no captured tile is in a chain.
C17_ChainTilesChainable ==
    (out.op = "get_chains" /\ ~out.res.panic) =>
        \A t \in ChainTiles(out.res.chains) : UndrawnCount(tiles[t]) \in {1, 2}

\* C18: for every tile state, is_path() is true exactly when the tile has
\* exactly two undrawn edges.
C18_IsPathTwoUndrawn ==
    \A i \in TileIndex : is_path(tiles[i]) <=> UndrawnCount(tiles[i]) = 2

\* a mark left its tile with exactly two undrawn edges, and is_path says so
C18_Witness ==
    /\ out.op = "mark"
    /\ UndrawnCount(tiles[out.arg[1]]) = 2
    /\ is_path(tiles[out.arg[1]])
    /\ \E i \in TileIndex : UndrawnCount(tiles[i]) = 1 /\ ~is_path(tiles[i])

\* a failed probe resets the flags of the tiles it walked past its origin
ProbeRollsBack(p) ==
    ~p.is_loop => p.after \cap (SeqSet(p.walked) \ {p.origin}) = {}

\* a failed probe leaves the flags set before it as they were
ProbeKeepsEarlier(p) ==
    ~p.is_loop => p.before \subseteq p.after

\* no probe starts from a tile of a loop confirmed earlier in the scan
NoProbeFromLoop(probes) ==
    \A j, k \in 1..Len(probes) :
        (j < k /\ probes[j].is_loop) => probes[k].origin \notin SeqSet(probes[j].walked)

\* C19: within one get_loops scan a failed probe rolls back the visited
\* flags it set and only those: the flags of the tiles of a loop confirmed
\* earlier stay set, so no later probe starts from such a tile.
C19_RollbackOnlyOwn ==
    (out.op = "get_loops" /\ ~out.res.panic /\ ~out.res.diverged) =>
        /\ \A k \in 1..Len(out.res.probes) :
               /\ ProbeRollsBack(out.res.probes[k])
               /\ ProbeKeepsEarlier(out.res.probes[k])
        /\ NoProbeFromLoop(out.res.probes)

\* tiles t and u are side by side on the grid
GridAdjacent(t, u) ==
    \/ t[1] = u[1] /\ (t[2] = u[2] + 1 \/ u[2] = t[2] + 1)
    \/ t[2] = u[2] /\ (t[1] = u[1] + 1 \/ u[1] = t[1] + 1)

\* the edge between t and u is undrawn on both tiles
SharedEdgeUndrawn(b, t, u) ==
    \E pos \in Position :
        /\ at(t, pos) = Some(u)
        /\ ConfigIsOpen(b[t], pos)
        /\ ConfigIsOpen(b[u], invert(pos))

\* every two consecutive tiles of q are adjacent across an undrawn edge
LinkedByUndrawn(b, q) ==
    \A k \in 1..(Len(q) - 1) :
        /\ GridAdjacent(q[k], q[k + 1])
        /\ SharedEdgeUndrawn(b, q[k], q[k + 1])

\* C20: in every chain returned by get_chains each pair of consecutive
\* tiles is grid-adjacent and their shared edge is undrawn.
C20_ChainLinked ==
    (out.op = "get_chains" /\ ~out.res.panic) =>
        \A k \in 1..Len(out.res.chains) : LinkedByUndrawn(tiles, out.res.chains[k].tiles)

\* a completed scan that returned a chain of three tiles or more
C20_Witness ==
    /\ out.op = "get_chains"
    /\ ~out.res.panic
    /\ \E k \in 1..Len(out.res.chains) : Len(out.res.chains[k].tiles) >= 3

\* the tiles of q have two undrawn edges each and q is a closed walk over
\* undrawn shared edges
ClosedPathCycle(b, q) ==
    /\ \A k \in 1..Len(q) : UndrawnCount(b[q[k]]) = 2
    /\ LinkedByUndrawn(b, q)
    /\ GridAdjacent(q[Len(q)], q[1])
    /\ SharedEdgeUndrawn(b, q[Len(q)], q[1])

\* C21: in every loop returned by get_loops every tile has exactly two
\* undrawn edges, each tile is connected to the next by an undrawn shared
\* edge, and the last tile to the first.
C21_LoopStructure ==
    (out.op = "get_loops" /\ ~out.res.panic /\ ~out.res.diverged) =>
        \A k \in 1..Len(out.res.loops) : ClosedPathCycle(tiles, out.res.loops[k])

\* a completed scan that returned a loop of four tiles, closed over an undrawn edge
C21_Witness ==
    /\ out.op = "get_loops"
    /\ ~out.res.panic
    /\ ~out.res.diverged
    /\ \E k \in 1..Len(out.res.loops) :
           /\ Len(out.res.loops[k]) = 4
           /\ SharedEdgeUndrawn(tiles, out.res.loops[k][4], out.res.loops[k][1])

\* C22: on every board reached by marking only open edges, get_loops runs
\* to completion with no abort: LoopBuilder::add never receives a non-path
\* or disconnected tile and LoopBuilder::build never fewer than four tiles
\* or an unclosed sequence.
C22_GetLoopsCompletes ==
    out.op = "get_loops" => ~out.res.panic

\* a completed scan in which one probe closed a loop and another one walked
\* on from its origin and failed
C22_Witness ==
    /\ out.op = "get_loops"
    /\ ~out.res.panic
    /\ \E j, k \in 1..Len(out.res.probes) :
           /\ out.res.probes[j].is_loop
           /\ ~out.res.probes[k].is_loop
           /\ Len(out.res.probes[k].walked) >= 2

\* the routine the search enters at a successor: the same routine when the
\* player to move did not change, the other one when it did
NextRoutine(routine, g, new_state) ==
    IF player_to_play(g) = player_to_play(new_state)
    THEN routine
    ELSE IF routine = "max" THEN "min" ELSE "max"

\* at g and at every state below it in the full game tree the routine entered
\* meets its turn precondition
RECURSIVE RoutineFits(_, _, _)
RoutineFits(g, turn, routine) ==
    /\ (routine = "max") <=> (player_to_play(g) = turn)
    /\ \A m \in MoveSet(g) :
           RoutineFits(Game_play(g, m[1], m[2]), turn,
                       NextRoutine(routine, g, Game_play(g, m[1], m[2])))

\* C23: in an ab_search started with the perspective player to move every
\* recursive call meets the turn precondition of its routine (max where the
\* perspective player moves, min where the opponent moves), so no turn
\* check inside the search aborts.
C23_TurnPreconditions ==
    (out.op = "ab_search" /\ out.arg = player) =>
        /\ ~out.res.panic
        /\ RoutineFits(Game, out.arg, "max")

\* an in-turn search that went at least two levels deep: max and min ran
C23_Witness ==
    /\ out.op = "ab_search"
    /\ out.arg = player
    /\ ~out.res.panic
    /\ out.res.played > Len(available_moves(Game))

\* below g the game is over exactly where no edge is left undrawn, and every
\* move leads to a successor with exactly one undrawn edge fewer
RECURSIVE TreeDrawsOne(_)
TreeDrawsOne(g) ==
    /\ ended(g) <=> UndrawnEdgeCount(g.tiles) = 0
    /\ \A m \in MoveSet(g) :
           /\ UndrawnEdgeCount(Game_play(g, m[1], m[2]).tiles) = UndrawnEdgeCount(g.tiles) - 1
           /\ TreeDrawsOne(Game_play(g, m[1], m[2]))

\* the length of the longest line of play below g
RECURSIVE TreeDepth(_)
TreeDepth(g) ==
    IF ended(g)
    THEN 0
    ELSE 1 + SetMax({TreeDepth(Game_play(g, m[1], m[2])) : m \in MoveSet(g)})

\* C24: ab_search terminates: every recursive call is made on a successor
\* with exactly one undrawn edge fewer, so the recursion is no deeper than
\* the undrawn edges of the root, and a branch ends at a cut-off or at a
\* state with ended() true.  Checked on every position a search is started
\* from and on the whole game tree below it.
C24_SearchTerminates ==
    /\ UndrawnEdgeCount(tiles) <= MaxSearchOpen =>
           /\ TreeDrawsOne(Game)
           /\ TreeDepth(Game) <= UndrawnEdgeCount(tiles)
    /\ out.op = "ab_search" =>
           /\ out.res.played <= TreePlays(Game)
           /\ out.arg = player => ~out.res.panic

\* a search from a position with three undrawn edges or more returned after
\* applying moves down to the end of the game
C24_Witness ==
    /\ out.op = "ab_search"
    /\ out.arg = player
    /\ ~out.res.panic
    /\ UndrawnEdgeCount(tiles) >= 3
    /\ TreeDepth(Game) = UndrawnEdgeCount(tiles)
    /\ out.res.played >= UndrawnEdgeCount(tiles)

\* the minimax value of the successor of the k-th available move of g
MoveValue(g, turn, k) ==
    Minimax(Game_play(g, available_moves(g)[k][1], available_moves(g)[k][2]), turn)

\* the positions in available_moves(g) whose successor is worth `value`
BestMoves(g, turn, value) ==
    {k \in 1..Len(available_moves(g)) : MoveValue(g, turn, k) = value}

\* C25: at the root (alpha = i32::MIN, beta = i32::MAX) the action returned
\* is the earliest move, in available_moves() order, whose successor has a
\* minimax value equal to the returned utility; a later move of the same
\* value never replaces it.
C25_EarliestBestMove ==
    (out.op = "ab_search" /\ out.arg = player /\ ~ended(Game)) =>
        /\ ~out.res.panic
        /\ BestMoves(Game, out.arg, out.res.value) # {}
        /\ out.res.action =
               available_moves(Game)[SetMin(BestMoves(Game, out.arg, out.res.value))]

\* a search where a later move is worth as much as the returned one, which
\* is not the first move of the list
C25_Witness ==
    /\ out.op = "ab_search"
    /\ out.arg = player
    /\ ~ended(Game)
    /\ ~out.res.panic
    /\ Cardinality(BestMoves(Game, out.arg, out.res.value)) >= 2
    /\ SetMin(BestMoves(Game, out.arg, out.res.value)) > 1
    /\ out.res.action =
           available_moves(Game)[SetMin(BestMoves(Game, out.arg, out.res.value))]

\* C26: the chain-growth loop of get_chains and the probe walk of get_loops
\* both terminate: a chain is grown by tiles not visited before, so it never
\* holds a tile twice, and a probe stops back at its origin, at a tile that
\* is no path or where no neighbor is connected, without walking a tile
\* twice or circling among tiles that leave the origin out.
C26_WalksTerminate ==
    /\ out.op = "get_chains" =>
           \A k \in 1..Len(out.res.chains) :
               /\ NoRepeat(out.res.chains[k].tiles)
               /\ SeqSet(out.res.chains[k].tiles) \subseteq out.res.ev
    /\ out.op = "get_loops" =>
           /\ ~out.res.diverged
           /\ \A k \in 1..Len(out.res.probes) :
                  /\ NoRepeat(out.res.probes[k].walked)
                  /\ out.res.probes[k].walked[1] = out.res.probes[k].origin

\* get_loops returned on a board where one probe closed a loop and another
\* walked on from its origin and stopped short, and where get_chains grows a
\* chain of three tiles or more
C26_Witness ==
    /\ out.op = "get_loops"
    /\ ~out.res.panic
    /\ \E k \in 1..Len(out.res.probes) : out.res.probes[k].is_loop
    /\ \E k \in 1..Len(out.res.probes) :
           /\ ~out.res.probes[k].is_loop
           /\ Len(out.res.probes[k].walked) >= 2
    /\ \E k \in 1..Len(get_chains(tiles).chains) :
           Len(get_chains(tiles).chains[k].tiles) >= 3

\* the (tile, side) flags that Board::mark(index, pos) may set
MarkTargets(index, pos) ==
    {<<index, pos>>} \cup
        (IF has_neighbor(index, pos)
         THEN {<<Unwrap(at(index, pos)), invert(pos)>>}
         ELSE {})

\* the (tile, side) flags on which boards b and c differ
ChangedFlags(b, c) ==
    {f \in TileIndex \X Position :
        ConfigIsOpen(b[f[1]], f[2]) # ConfigIsOpen(c[f[1]], f[2])}

\* C27: Board::mark(index, pos) changes edge pos of tile index and, when
\* that tile has a neighbor in direction pos, edge pos.invert() of that
\* neighbor, and no other flag of any tile; with no neighbor in that
\* direction no other tile is touched.
C27_MarkFrame ==
    [][out'.op = "mark" =>
          /\ ChangedFlags(tiles, tiles') \subseteq MarkTargets(out'.arg[1], out'.arg[2])
          /\ \A f \in MarkTargets(out'.arg[1], out'.arg[2]) :
                 ~ConfigIsOpen(tiles'[f[1]], f[2])]_vars

\* a mark of a boundary edge after a mark of an interior edge: three flags
\* are set on the whole board, one of them by the last mark on a tile with
\* no neighbor on that side
C27_Witness ==
    /\ out.op = "mark"
    /\ depth = 2
    /\ ~has_neighbor(out.arg[1], out.arg[2])
    /\ ~ConfigIsOpen(tiles[out.arg[1]], out.arg[2])
    /\ Cardinality(ChangedFlags(BoardNew, tiles)) = 3

\* the side pos of the tile at index faces off the 3x3 grid
FacesOffGrid(index, pos) ==
    LET row == index[1] + (IF pos = "Top" THEN -1 ELSE IF pos = "Bottom" THEN 1 ELSE 0)
        col == index[2] + (IF pos = "Left" THEN -1 ELSE IF pos = "Right" THEN 1 ELSE 0)
    IN  ~(row \in 0..2 /\ col \in 0..2)

\* the undrawn sides of a tile
UndrawnSides(c) == {p \in Position : ConfigIsOpen(c, p)}

\* C28: is_edge_path_chain_end() is true exactly when the tile is not the
\* center (1,1), has exactly two undrawn edges, and exactly one of them
\* faces off the grid; get_edge_path_chain_pos() then returns the undrawn
\* edge that has an interior neighbor.
C28_EdgePathChainEnd ==
    \A i \in TileIndex :
        /\ is_edge_path_chain_end(i, tiles[i]) <=>
               /\ i # <<1, 1>>
               /\ Cardinality(UndrawnSides(tiles[i])) = 2
               /\ Cardinality({p \in UndrawnSides(tiles[i]) : FacesOffGrid(i, p)}) = 1
        /\ is_edge_path_chain_end(i, tiles[i]) =>
               /\ get_edge_path_chain_pos(i, tiles[i]) \in UndrawnSides(tiles[i])
               /\ ~FacesOffGrid(i, get_edge_path_chain_pos(i, tiles[i]))

\* a mark left its tile an edge-path chain end whose first opening faces off
\* the grid, so that the second one is returned, next to a tile off the
\* center with two undrawn edges that is no chain end
C28_Witness ==
    /\ out.op = "mark"
    /\ is_edge_path_chain_end(out.arg[1], tiles[out.arg[1]])
    /\ get_edge_path_chain_pos(out.arg[1], tiles[out.arg[1]]) = openings(tiles[out.arg[1]])[2]
    /\ FacesOffGrid(out.arg[1], openings(tiles[out.arg[1]])[1])
    /\ \E i \in TileIndex :
           /\ i # <<1, 1>>
           /\ Cardinality(UndrawnSides(tiles[i])) = 2
           /\ ~is_edge_path_chain_end(i, tiles[i])

\* C29: at every terminal state, reached by 24 legal plays, no chain and no
\* loop exists and free_edge_squares() is 0, so utility(p) is the boxes p
\* owns minus the boxes the opponent owns; the two counts sum to 9 and
\* utility(p) = -utility(opponent(p)).
C29_TerminalUtility ==
    ended(Game) =>
        /\ plays = 24
        /\ ~get_chains(tiles).panic
        /\ get_chains(tiles).chains = <<>>
        /\ ~get_loops(tiles).panic
        /\ get_loops(tiles).loops = <<>>
        /\ free_edge_squares(tiles) = 0
        /\ CapturedBy(Game, "Odd") + CapturedBy(Game, "Even") = 9
        /\ \A p \in Player :
               /\ ~utility(Game, p).panic
               /\ utility(Game, p).value = CapturedBy(Game, p) - CapturedBy(Game, opponent(p))
               /\ utility(Game, p).value = -utility(Game, opponent(p)).value

\* the last of 24 plays ended a game in which both players own boxes
C29_Witness ==
    /\ out.op = "play"
    /\ plays = 24
    /\ ended(Game)
    /\ CapturedBy(Game, "Odd") > 0
    /\ CapturedBy(Game, "Even") > 0
    /\ utility(Game, "Odd").value = CapturedBy(Game, "Odd") - CapturedBy(Game, "Even")

====
